---- MODULE Spec2Model ----
(***************************************************************************)
(* The chart-series merge of StockDashboard (buildChartData): the price    *)
(* window, the evaluated prediction history and the forward predictions    *)
(* are merged into one sequence of chart points.                           *)
(***************************************************************************)
EXTENDS Integers, Sequences, FiniteSets, TLC

(***************************************************************************)
(* JavaScript values.  A field that is missing reads as undefined.         *)
(***************************************************************************)
Undefined == [kind |-> "undefined"]

Null == [kind |-> "null"]

Num(n) == [kind |-> "number", v |-> n]

Arr(s) == [kind |-> "array", items |-> s]

\* ToBoolean on the values a price field can hold: undefined, null and 0
\* are falsy, every other number is truthy.
Truthy(v) == v.kind = "number" /\ v.v # 0

\* a || b
OrElse(a, b) == IF Truthy(a) THEN a ELSE b

(***************************************************************************)
(* Bounds of the model.                                                    *)
(***************************************************************************)
MaxPrices == 2

MaxHistory == 2

MaxForward == 2

\* at most this many prediction records (history and forward together)
MaxRecords == 2

\* the metric values run from -1.0 to MaxMetric.0, in steps of 0.1
MaxMetric == 61

\* at most this many feature-importance entries
MaxFeatures == 4

\* at most this many fetchAllData cycles are started
MaxCycles == 3

\* at most this many calls of addFavorite, removeFavorite and toggleFavorite
MaxCalls == 3

\* at most this many search requests are sent
MaxRequests == 2

\* at most this many batch-price requests are sent
MaxBatches == 3

\* at most this many loadData calls are made
MaxLoads == 3

Years == {2025, 2026}

Months == {1}

Days == {1, 2, 3}

\* the year of the price window and of the forward predictions: the latest
ThisYear == CHOOSE y \in Years : \A z \in Years : z <= y

\* the day of the month the records of the prediction history target
TargetDays == {2}

Closes == {100, 102}

HistoryPrices == {101, 103}

ForwardPrices == {105}

(***************************************************************************)
(* Dates.  A date string is modelled by the calendar day it denotes.       *)
(***************************************************************************)
Dates == [y : Years, m : Months, d : Days]

DayNumber(dt) == (dt.y * 12 + dt.m) * 31 + dt.d

\* formatDate: toLocaleDateString('ko-KR', {month: 'short', day: 'numeric'})
\* keeps the month and the day of the date and drops its year.
formatDate(dateStr) == [month |-> dateStr.m, day |-> dateStr.d]

(***************************************************************************)
(* The inputs.                                                             *)
(***************************************************************************)
PricePoints == [date : {dt \in Dates : dt.y = ThisYear}, close : {Num(c) : c \in Closes}]

PredictionRecords ==
    [target_date : {dt \in Dates : dt.d \in TargetDays},
     predicted_price : {Num(p) : p \in HistoryPrices},
     actual_price : {Null, Undefined, Num(102)}]

ForwardPredictions ==
    [date : {dt \in Dates : dt.y = ThisYear},
     predicted_price : {Num(p) : p \in ForwardPrices},
     corrected_price : {Undefined, Null, Num(0), Num(104)}]

SeqsUpTo(S, n) == UNION {[1..k -> S] : k \in 0..n}

\* the price API returns the prices of a period in chronological order
Chronological(s) ==
    \A i \in 1..Len(s) : \A j \in 1..Len(s) :
        i < j => DayNumber(s[i].date) <= DayNumber(s[j].date)

PriceLists == {s \in SeqsUpTo(PricePoints, MaxPrices) : Chronological(s)}

StockDatas ==
    {Null, [kind |-> "object", prices |-> Undefined]}
        \cup {[kind |-> "object", prices |-> Arr(s)] : s \in PriceLists}

\* the prediction state: null before the first fetch, then the response
\* object, whose predictions hold at most n forward predictions
Predictions(n) ==
    {Null, [kind |-> "object", predictions |-> Undefined]}
        \cup {[kind |-> "object", predictions |-> Arr(s)] :
                 s \in SeqsUpTo(ForwardPredictions, n)}

Min(a, b) == IF a <= b THEN a ELSE b

\* prediction?.predictions as a list: nothing when there is none
ForwardOf(pred) ==
    IF pred.kind = "object" /\ pred.predictions.kind = "array"
    THEN pred.predictions.items ELSE <<>>

(***************************************************************************)
(* Array and Map helpers.                                                  *)
(***************************************************************************)
\* Array.prototype.slice(-n)
SliceLast(s, n) == IF Len(s) <= n THEN s ELSE SubSeq(s, Len(s) - n + 1, Len(s))

\* A Map is the sequence of its values in insertion order; a value's key
\* is its date field.
MapHas(map, key) == \E i \in 1..Len(map) : map[i].date = key

\* Variant of MapSet: a new key goes first.
MapSetFront(map, key, val) ==
    IF MapHas(map, key)
    THEN [i \in 1..Len(map) |-> IF map[i].date = key THEN val ELSE map[i]]
    ELSE <<val>> \o map

\* Variant of MapSet: every call adds an entry, also for an existing key.
MapSetAppend(map, key, val) == Append(map, val)

\* Map.prototype.set: a new key goes last, an existing key keeps its place
MapSet(map, key, val) ==
    IF MapHas(map, key)
    THEN [i \in 1..Len(map) |-> IF map[i].date = key THEN val ELSE map[i]]
    ELSE Append(map, val)

WindowSize == 30

(***************************************************************************)
(* buildChartData.                                                         *)
(***************************************************************************)
RECURSIVE SetPrices(_, _)
SetPrices(dataMap, prices) ==
    IF prices = <<>> THEN dataMap
    ELSE LET p == Head(prices)
             date == formatDate(p.date)
         IN SetPrices(MapSet(dataMap, date,
                             [date |-> date, price |-> p.close, predicted |-> Undefined]),
                      Tail(prices))

\* .filter(h => h.actual_price !== null)
Evaluated(history) == SelectSeq(history, LAMBDA h : h.actual_price # Null)

\* Variant of AttachPredicted: the first record of a day stays attached.
RECURSIVE AttachFirstOnly(_, _)
AttachFirstOnly(dataMap, history) ==
    IF history = <<>> THEN dataMap
    ELSE LET h == Head(history)
             date == formatDate(h.target_date)
         IN AttachFirstOnly(
                [i \in 1..Len(dataMap) |->
                    IF dataMap[i].date = date /\ dataMap[i].predicted = Undefined
                    THEN [dataMap[i] EXCEPT !.predicted = h.predicted_price]
                    ELSE dataMap[i]],
                Tail(history))

RECURSIVE AttachPredicted(_, _)
AttachPredicted(dataMap, history) ==
    IF history = <<>> THEN dataMap
    ELSE LET h == Head(history)
             date == formatDate(h.target_date)
         IN AttachPredicted(
                [i \in 1..Len(dataMap) |->
                    IF dataMap[i].date = date
                    THEN [dataMap[i] EXCEPT !.predicted = h.predicted_price]
                    ELSE dataMap[i]],
                Tail(history))

\* Variant of Historical: a record whose date is not in the map adds a point.
HistoricalExtended(stockData, history) ==
    LET dataMap == AttachPredicted(SetPrices(<<>>, SliceLast(stockData.prices.items, WindowSize)),
                                   Evaluated(history))
        outside == SelectSeq(Evaluated(history),
                             LAMBDA h : ~MapHas(dataMap, formatDate(h.target_date)))
    IN dataMap \o [i \in 1..Len(outside) |->
                      [date |-> formatDate(outside[i].target_date),
                       price |-> Undefined,
                       predicted |-> outside[i].predicted_price]]

\* the historical segment: Array.from(dataMap.values())
Historical(stockData, history) ==
    AttachPredicted(SetPrices(<<>>, SliceLast(stockData.prices.items, WindowSize)),
                    Evaluated(history))

\* Variant of Bridge: an attached prediction is kept.
BridgeUnlessAttached(result) ==
    IF Len(result) > 0 /\ result[Len(result)].predicted = Undefined
    THEN [result EXCEPT ![Len(result)].predicted = result[Len(result)].price]
    ELSE result

\* if (result.length > 0) lastPoint.predicted = lastPoint.price
Bridge(result) ==
    IF Len(result) > 0
    THEN [result EXCEPT ![Len(result)].predicted = result[Len(result)].price]
    ELSE result

\* Variant of ForwardPoint: no fallback to predicted_price.
ForwardPointCorrectedOnly(p) ==
    [date |-> formatDate(p.date),
     price |-> Undefined,
     predicted |-> p.corrected_price]

ForwardPoint(p) ==
    [date |-> formatDate(p.date),
     price |-> Undefined,
     predicted |-> OrElse(p.corrected_price, p.predicted_price)]

ForwardPoints(predictions) == [i \in 1..Len(predictions) |-> ForwardPoint(predictions[i])]

\* !stockData?.prices
NoPrices(sd) == sd.kind # "object" \/ sd.prices.kind # "array"

\* prediction?.predictions is truthy: an array is, also an empty one
HasPredictions(pred) == pred.kind = "object" /\ pred.predictions.kind = "array"

\* Variant of buildChartData: the forward points are appended without the bridge.
buildChartDataNoBridge(sd, history, pred) ==
    IF sd.kind # "object" \/ sd.prices.kind # "array" THEN <<>>
    ELSE Historical(sd, history)
             \o (IF pred.kind = "object" /\ pred.predictions.kind = "array"
                 THEN [i \in 1..Len(pred.predictions.items) |->
                          ForwardPoint(pred.predictions.items[i])]
                 ELSE <<>>)

buildChartData(sd, history, pred) ==
    IF NoPrices(sd) THEN <<>>
    ELSE LET result == Historical(sd, history)
         IN IF HasPredictions(pred)
            THEN Bridge(result) \o ForwardPoints(pred.predictions.items)
            ELSE result

(***************************************************************************)
(* getGrade (PredictionAccuracy).  A metric value is a number of tenths:   *)
(* Num(49) is 4.9.  The grades are named in English: "very accurate" is    *)
(* '매우 정확', "good" '양호', "needs improvement" '개선 필요',            *)
(* "excellent" '우수', "fair" '보통' and "poor" '미흡'.                    *)
(***************************************************************************)
Tenths(n) == Num(n * 10)

Infinity == [kind |-> "infinity"]

METRIC_INFO ==
    [mae |->
        <<[max |-> Tenths(5), grade |-> "very accurate", color |-> "text-green-600"],
          [max |-> Tenths(15), grade |-> "good", color |-> "text-blue-600"],
          [max |-> Infinity, grade |-> "needs improvement", color |-> "text-red-600"]>>,
     mape |->
        <<[max |-> Tenths(5), grade |-> "very accurate", color |-> "text-green-600"],
          [max |-> Tenths(10), grade |-> "good", color |-> "text-yellow-600"],
          [max |-> Infinity, grade |-> "needs improvement", color |-> "text-red-600"]>>,
     rmse |->
        <<[max |-> Tenths(8), grade |-> "very accurate", color |-> "text-green-600"],
          [max |-> Tenths(20), grade |-> "good", color |-> "text-blue-600"],
          [max |-> Infinity, grade |-> "needs improvement", color |-> "text-red-600"]>>,
     direction_accuracy |->
        <<[min |-> Tenths(60), grade |-> "excellent", color |-> "text-green-600"],
          [min |-> Tenths(50), grade |-> "fair", color |-> "text-yellow-600"],
          [min |-> Tenths(0), grade |-> "poor", color |-> "text-red-600"]>>]

\* Variant of LessThan: value <= t.max
LessOrEqual(value, max) == max.kind = "infinity" \/ value.v <= max.v

\* value < t.max
LessThan(value, max) == max.kind = "infinity" \/ value.v < max.v

\* value >= t.min
AtLeast(value, min) == value.v >= min.v

\* for (const t of info.thresholds) if (value < t.max) return {grade, color}
RECURSIVE FirstBelow(_, _)
FirstBelow(thresholds, value) ==
    IF thresholds = <<>> THEN Null
    ELSE LET t == Head(thresholds)
         IN IF LessThan(value, t.max)
            THEN [grade |-> t.grade, color |-> t.color]
            ELSE FirstBelow(Tail(thresholds), value)

\* for (const t of info.thresholds) if (value >= t.min) return {grade, color}
RECURSIVE FirstReached(_, _)
FirstReached(thresholds, value) ==
    IF thresholds = <<>> THEN Null
    ELSE LET t == Head(thresholds)
         IN IF AtLeast(value, t.min)
            THEN [grade |-> t.grade, color |-> t.color]
            ELSE FirstReached(Tail(thresholds), value)

\* Variant of getGrade: no test of the value; null and undefined compare as 0.
getGradeOfAnything(metricKey, value) ==
    LET v == IF value.kind = "number" THEN value ELSE Num(0)
    IN IF metricKey \notin DOMAIN METRIC_INFO THEN Null
       ELSE IF metricKey = "direction_accuracy"
            THEN FirstReached(METRIC_INFO[metricKey], v)
            ELSE FirstBelow(METRIC_INFO[metricKey], v)

getGrade(metricKey, value) ==
    IF metricKey \notin DOMAIN METRIC_INFO \/ value = Null \/ value = Undefined
    THEN Null
    ELSE IF metricKey = "direction_accuracy"
         THEN FirstReached(METRIC_INFO[metricKey], value)
         ELSE FirstBelow(METRIC_INFO[metricKey], value)

\* the metric keys the cards are rendered with, and one METRIC_INFO lacks
MetricKeys == {"mae", "mape", "rmse", "direction_accuracy", "r2"}

MetricValues == {Null, Undefined} \cup {Num(t) : t \in (0 - 10)..(MaxMetric * 10)}

(***************************************************************************)
(* The feature-importance bars (StockDashboard).  An importance is a       *)
(* number of thousandths (1 is 0.001), a bar width and a percentage label  *)
(* a number of tenths of a percent: importance * 100 is the importance's   *)
(* number of thousandths, read in tenths of a percent.                     *)
(***************************************************************************)
Features == {"rsi", "volume"}

ImportanceValues == {0, 1, 20, 300}

DescriptionOf == [rsi |-> "relative strength", volume |-> "traded volume"]

ImportanceEntries ==
    {[feature |-> f, importance |-> i, description |-> DescriptionOf[f]] :
        f \in Features, i \in ImportanceValues}

\* prediction?.feature_importance: absent, or a list
RawImportances == {Undefined} \cup {Arr(l) : l \in SeqsUpTo(ImportanceEntries, MaxFeatures)}

\* prediction?.feature_importance || []
FeatureImportanceOf(raw) == IF raw.kind = "array" THEN raw.items ELSE <<>>

TopCount == 3

MinBarWidth == 2

\* Variant of IsTop3: idx <= 3
IsTop3Inclusive(idx) == idx <= TopCount

\* const isTop3 = idx < 3
IsTop3(idx) == idx < TopCount

\* Variant of BarWidth: no floor
BarWidthUnclamped(fi) == fi.importance

\* Math.max(2, fi.importance * 100), in tenths of a percent
BarWidth(fi) ==
    IF fi.importance >= MinBarWidth * 10 THEN fi.importance ELSE MinBarWidth * 10

\* (fi.importance * 100).toFixed(1), in tenths of a percent
PercentLabel(fi) == fi.importance

ImportanceRow(fi, idx) ==
    [feature |-> fi.feature,
     isTop3 |-> IsTop3(idx),
     width |-> BarWidth(fi),
     label |-> PercentLabel(fi)]

\* a list by descending importance
RECURSIVE SortedByImportance(_)
SortedByImportance(l) ==
    IF l = <<>> THEN <<>>
    ELSE LET k == CHOOSE i \in 1..Len(l) :
                     /\ \A j \in 1..Len(l) : l[j].importance <= l[i].importance
                     /\ \A j \in 1..(i - 1) : l[j].importance < l[i].importance
         IN <<l[k]>> \o SortedByImportance(SubSeq(l, 1, k - 1) \o SubSeq(l, k + 1, Len(l)))

\* Variant of ImportanceRows: the entries are sorted first.
ImportanceRowsSorted(fis) ==
    [k \in 1..Len(fis) |-> ImportanceRow(SortedByImportance(fis)[k], k - 1)]

\* featureImportance.map((fi, idx) => ...)
ImportanceRows(fis) == [k \in 1..Len(fis) |-> ImportanceRow(fis[k], k - 1)]

\* featureImportance.slice(0, 3).map(fi => fi.feature: fi.description)
TopDescriptions(fis) ==
    [k \in 1..Min(TopCount, Len(fis)) |->
        [feature |-> fis[k].feature, description |-> fis[k].description]]

(***************************************************************************)
(* The responses of the API to the five requests of a fetchAllData cycle,  *)
(* for a ticker: res.data.data.  Each names its ticker.                    *)
(***************************************************************************)
Tickers == {"AAPL", "MSFT"}

CloseOf == [AAPL |-> 100, MSFT |-> 102]

PriceData(t) ==
    [kind |-> "object", ticker |-> t,
     prices |-> Arr(<<[date |-> [y |-> ThisYear, m |-> 1, d |-> 1],
                       close |-> Num(CloseOf[t])]>>)]

IndicatorData(t) == [kind |-> "object", ticker |-> t]

SignalData(t) == [kind |-> "object", ticker |-> t, overall_signal |-> "BUY"]

PredictionData(t) ==
    [kind |-> "object", ticker |-> t,
     predictions |-> Arr(<<[date |-> [y |-> ThisYear, m |-> 1, d |-> 2],
                            predicted_price |-> Num(CloseOf[t] + 5),
                            corrected_price |-> Undefined]>>)]

\* historyRes.data.data?.history || []
HistoryData(t) ==
    <<[target_date |-> [y |-> ThisYear, m |-> 1, d |-> 1],
       predicted_price |-> Num(CloseOf[t] + 1),
       actual_price |-> Num(CloseOf[t])]>>

\* How a cycle ends: every request answered; the history request failed
\* alone (its catch gives an empty history); or Promise.all rejected with
\* the failure of the prices, indicators, signals or predictions request.
Rejections == {"prices", "indicators", "signals", "predictions"}

Outcomes == {"ok", "history"} \cup Rejections

(***************************************************************************)
(* useFavorites.  A ticker is a number; each of the three functions is     *)
(* given the favorites of the render it was created in and gives the new   *)
(* favorites (what it passed to setFavorites, or the same list) and what   *)
(* it returned.                                                            *)
(***************************************************************************)
Bool(b) == [kind |-> "boolean", v |-> b]

MAX_FAVORITES == 20

\* favorites.includes(ticker)
Includes(favorites, t) == \E i \in DOMAIN favorites : favorites[i] = t

\* Variant of addFavorite: the list is full only beyond MAX_FAVORITES.
addFavoriteBeyond(favorites, t) ==
    IF Len(favorites) > MAX_FAVORITES
    THEN [favorites |-> favorites, returned |-> Bool(FALSE)]
    ELSE IF ~Includes(favorites, t)
         THEN [favorites |-> Append(favorites, t), returned |-> Bool(TRUE)]
         ELSE [favorites |-> favorites, returned |-> Bool(FALSE)]

addFavorite(favorites, t) ==
    IF Len(favorites) >= MAX_FAVORITES
    THEN [favorites |-> favorites, returned |-> Bool(FALSE)]
    ELSE IF ~Includes(favorites, t)
         THEN [favorites |-> Append(favorites, t), returned |-> Bool(TRUE)]
         ELSE [favorites |-> favorites, returned |-> Bool(FALSE)]

\* setFavorites(favorites.filter(t => t !== ticker))
removeFavorite(favorites, t) ==
    [favorites |-> SelectSeq(favorites, LAMBDA f : f # t), returned |-> Undefined]

\* Variant of toggleFavorite: a ticker of the list is left in it.
toggleFavoriteKeeping(favorites, t) ==
    IF Includes(favorites, t)
    THEN [favorites |-> favorites, returned |-> Bool(FALSE)]
    ELSE addFavorite(favorites, t)

toggleFavorite(favorites, t) ==
    IF Includes(favorites, t)
    THEN [favorites |-> removeFavorite(favorites, t).favorites, returned |-> Bool(FALSE)]
    ELSE addFavorite(favorites, t)

isFavorite(favorites, t) == Includes(favorites, t)

\* the stored lists: JSON.parse(saved), or [] when nothing is saved
StoredFavorites == {[i \in 1..k |-> i] : k \in 0..MAX_FAVORITES}

\* the tickers the functions are called with: the first of a stored list,
\* the last of a full one, and one that no stored list holds
CalledTickers == {1, MAX_FAVORITES, MAX_FAVORITES + 1}

(***************************************************************************)
(* StockSearch.  A query is a string; the search answers a query with a    *)
(* list of stocks.  activeIndex counts from 0 as in the code, -1 being no  *)
(* highlighted item: the item it names is results[activeIndex + 1].        *)
(***************************************************************************)
\* what is typed; a selection puts a ticker in the input
Queries == {"", "a", "x"}

Stock(t) == [ticker |-> t]

Str(t) == [kind |-> "string", v |-> t]

\* res.data.data.results for a query
ResultsOf(q) ==
    CASE q = "a" -> <<Stock("AAPL"), Stock("AMZN")>>
      [] q = "AAPL" -> <<Stock("AAPL")>>
      [] q = "AMZN" -> <<Stock("AMZN")>>
      [] OTHER -> <<>>

\* !debouncedQuery || debouncedQuery.trim().length < 1
Blank(q) == q = ""

\* how a request ends: res.data.success, a response without success, an error
SearchOutcomes == {"results", "unsuccessful", "failed"}

Max(a, b) == IF a >= b THEN a ELSE b

\* Variant of ArrowDownIndex: the index is not held at the last item.
ArrowDownIndexUnbounded(prev, list) == prev + 1

\* Math.min(prev + 1, results.length - 1)
ArrowDownIndex(prev, list) == Min(prev + 1, Len(list) - 1)

\* Math.max(prev - 1, -1)
ArrowUpIndex(prev) == Max(prev - 1, 0 - 1)

(***************************************************************************)
(* FavoriteGrid.  The favorites it is given are lists of tickers as in     *)
(* useFavorites; a timer is the number setInterval returned.               *)
(***************************************************************************)
ShownFavorites == {<<>>, <<1>>, <<1, 2>>}

\* response.data.data.stocks for the tickers sent
StocksOf(tickers) == [i \in DOMAIN tickers |-> [ticker |-> tickers[i]]]

\* how a batch request ends: response.data.success, a response without
\* success, an error
BatchOutcomes == {"stocks", "unsuccessful", "failed"}

\* Variant of ClearInterval: the effect returns no cleanup.
ClearIntervalNot(active, id) == active

\* return () => clearInterval(interval)
ClearInterval(active, id) == active \ {id}

(***************************************************************************)
(* PredictionAccuracy: loadData and handleUpdateActuals.                   *)
(***************************************************************************)
\* evaluated_count of the accuracy of a ticker
EvaluatedCountOf == [AAPL |-> 5, MSFT |-> 1]

\* accuracyRes.data.data
AccuracyData(t) ==
    [kind |-> "object", ticker |-> t, evaluated_count |-> EvaluatedCountOf[t]]

\* !accuracy || accuracy.evaluated_count < 2
isInsufficient(acc) == acc.kind # "object" \/ acc.evaluated_count < 2

\* how a loadData call ends: both requests answered, a 404, another failure
LoadOutcomes == {"ok", "notfound", "failed"}

\* Variant of Caught: a 404 is an error as any other.
CaughtAsError(outcome, acc, hist, err) ==
    [accuracy |-> acc, history |-> hist, error |-> Str("failed")]

\* the catch block of loadData: what accuracy, history and error become
Caught(outcome, acc, hist, err) ==
    IF outcome = "notfound"
    THEN [accuracy |-> Null, history |-> <<>>, error |-> err]
    ELSE [accuracy |-> acc, history |-> hist, error |-> Str("failed")]

(***************************************************************************)
(* The state: of StockDashboard and its render, and of a MetricCard.       *)
(***************************************************************************)
VARIABLES stockData, predictionHistory, prediction, combinedChartData, pc,
          metricKey, value, gradeInfo,
          featureImportance, importanceRows, topDescriptions,
          ticker, loading, indicators, signal, cycles, lastResolved,
          favorites, favoriteCalls,
          inputValue, debouncedQuery, results, isOpen, searchLoading, activeIndex,
          requests, selected,
          gridFavorites, stocksData, gridLoading, gridError, batches, timers,
          interval, timersCreated, mounted,
          tickerProp, accuracy, history, accLoading, updating, accError, loads, update

importanceVars == <<featureImportance, importanceRows, topDescriptions>>

\* no feature importance
ImportanceIdle ==
    /\ featureImportance = <<>>
    /\ importanceRows = <<>>
    /\ topDescriptions = <<>>

chartVars == <<stockData, predictionHistory, prediction, combinedChartData>>

gradeVars == <<metricKey, value, gradeInfo>>

\* cycles: the fetchAllData calls in the order they started, each with its
\* ticker and "pending" or the way it ended; lastResolved: the one that
\* ended last (0: none)
fetchVars == <<ticker, loading, indicators, signal, cycles, lastResolved>>

\* the dashboard as mounted, no fetch started
FetchIdle ==
    /\ ticker = "AAPL"
    /\ loading = FALSE
    /\ indicators = Null
    /\ signal = Null
    /\ cycles = <<>>
    /\ lastResolved = 0

\* favoriteCalls: the calls made, each with its function, its ticker, the
\* favorites it was given and what it returned
favoriteVars == <<favorites, favoriteCalls>>

FavoritesIdle == favorites = <<>> /\ favoriteCalls = <<>>

\* searchLoading: the loading of StockSearch; requests: the search requests
\* in the order they were sent, each with its query and "pending" or the way
\* it ended; selected: the ticker last given to onSelect
searchVars == <<inputValue, debouncedQuery, results, isOpen, searchLoading, activeIndex,
                requests, selected>>

\* StockSearch as mounted with an empty initialValue
SearchIdle ==
    /\ inputValue = ""
    /\ debouncedQuery = ""
    /\ results = <<>>
    /\ isOpen = FALSE
    /\ searchLoading = FALSE
    /\ activeIndex = 0 - 1
    /\ requests = <<>>
    /\ selected = Null

\* gridFavorites: the favorites prop; stocksData, gridLoading, gridError:
\* stocksData, loading and error of FavoriteGrid; batches: the batch-price
\* requests in the order they were sent, each with its tickers and "pending"
\* or the way it ended; timers: the intervals set and not cleared; interval:
\* the one the current polling effect has set (0: none); timersCreated: the
\* number of setInterval calls; mounted: FavoriteGrid is mounted
gridVars == <<gridFavorites, stocksData, gridLoading, gridError, batches, timers,
              interval, timersCreated, mounted>>

\* FavoriteGrid as mounted with no favorites
GridIdle ==
    /\ gridFavorites = <<>>
    /\ stocksData = <<>>
    /\ gridLoading = FALSE
    /\ gridError = Null
    /\ batches = <<>>
    /\ timers = {}
    /\ interval = 0
    /\ timersCreated = 0
    /\ mounted = TRUE

\* tickerProp: the ticker prop of PredictionAccuracy; accLoading, accError:
\* its loading and error; loads: the loadData calls in the order they were
\* made, each with its ticker, "pending" or the way it ended, and whether
\* handleUpdateActuals awaits it; update: the ticker handleUpdateActuals
\* has posted for and awaits the answer of (Null: none)
accuracyVars == <<tickerProp, accuracy, history, accLoading, updating, accError, loads, update>>

\* PredictionAccuracy as mounted without a ticker
AccuracyIdle ==
    /\ tickerProp = ""
    /\ accuracy = Null
    /\ history = <<>>
    /\ accLoading = FALSE
    /\ updating = FALSE
    /\ accError = Null
    /\ loads = <<>>
    /\ update = Null

\* the state outside StockDashboard's data
otherVars == <<favoriteVars, searchVars, gridVars, accuracyVars>>

OthersIdle == FavoritesIdle /\ SearchIdle /\ GridIdle /\ AccuracyIdle

vars == <<chartVars, gradeVars, importanceVars, fetchVars, otherVars, pc>>

\* no dashboard data
ChartIdle ==
    /\ stockData = Null
    /\ predictionHistory = <<>>
    /\ prediction = Null
    /\ combinedChartData = <<>>

\* no metric card
GradeIdle ==
    /\ metricKey = "mae"
    /\ value = Null
    /\ gradeInfo = Null

Init ==
    /\ stockData \in StockDatas
    /\ \E n \in 0..Min(MaxHistory, MaxRecords) :
          /\ predictionHistory \in [1..n -> PredictionRecords]
          /\ prediction \in Predictions(Min(MaxForward, MaxRecords - n))
    /\ combinedChartData = <<>>
    /\ pc = "render"
    /\ GradeIdle
    /\ ImportanceIdle
    /\ FetchIdle
    /\ OthersIdle

\* const combinedChartData = buildChartData()
Render ==
    /\ pc = "render"
    /\ combinedChartData' = buildChartData(stockData, predictionHistory, prediction)
    /\ pc' = "rendered"
    /\ UNCHANGED <<stockData, predictionHistory, prediction>>
    /\ UNCHANGED <<gradeVars, importanceVars, fetchVars, otherVars>>

Next == Render

Spec == Init /\ [][Next]_vars

TypeOK == pc \in {"render", "rendered"}

(***************************************************************************)
(* A MetricCard: a metric key and a value are given, getGrade grades them. *)
(***************************************************************************)
InitGrade ==
    /\ ChartIdle
    /\ ImportanceIdle
    /\ FetchIdle
    /\ OthersIdle
    /\ metricKey \in MetricKeys
    /\ value \in MetricValues
    /\ gradeInfo = Null
    /\ pc = "grade"

\* const gradeInfo = getGrade(metricKey, value)
Grade ==
    /\ pc = "grade"
    /\ gradeInfo' = getGrade(metricKey, value)
    /\ pc' = "graded"
    /\ UNCHANGED <<metricKey, value>>
    /\ UNCHANGED <<chartVars, importanceVars, fetchVars, otherVars>>

NextGrade == Grade

SpecGrade == InitGrade /\ [][NextGrade]_vars

(***************************************************************************)
(* The prediction tab: the feature importance of the prediction is drawn.  *)
(***************************************************************************)
InitImportance ==
    /\ ChartIdle
    /\ GradeIdle
    /\ FetchIdle
    /\ OthersIdle
    /\ \E raw \in RawImportances : featureImportance = FeatureImportanceOf(raw)
    /\ importanceRows = <<>>
    /\ topDescriptions = <<>>
    /\ pc = "draw"

\* {featureImportance.length > 0 && ( ... map ... slice(0, 3).map ... )}
DrawImportance ==
    /\ pc = "draw"
    /\ importanceRows' = ImportanceRows(featureImportance)
    /\ topDescriptions' = TopDescriptions(featureImportance)
    /\ pc' = "drawn"
    /\ UNCHANGED featureImportance
    /\ UNCHANGED <<chartVars, gradeVars, fetchVars, otherVars>>

NextImportance == DrawImportance

SpecImportance == InitImportance /\ [][NextImportance]_vars

(***************************************************************************)
(* The dashboard and its fetchAllData cycles.  A cycle starts with the     *)
(* synchronous part of fetchAllData and ends, at any later time, with the  *)
(* part after the await; the chart data are derived anew in each render.   *)
(***************************************************************************)
InitFetch ==
    /\ ChartIdle
    /\ GradeIdle
    /\ ImportanceIdle
    /\ FetchIdle
    /\ OthersIdle
    /\ pc = "dashboard"

\* fetchAllData(selectedTicker): StockSearch onSelect, or a favorite's click
Select(t) ==
    /\ pc = "dashboard"
    /\ Len(cycles) < MaxCycles
    /\ ticker' = t
    /\ loading' = TRUE
    /\ cycles' = Append(cycles, [ticker |-> t, status |-> "pending"])
    /\ UNCHANGED <<chartVars, indicators, signal, lastResolved>>
    /\ UNCHANGED <<gradeVars, importanceVars, otherVars, pc>>

\* fetchAllData(): the analyse button, disabled while loading
Analyse ==
    /\ pc = "dashboard"
    /\ Len(cycles) < MaxCycles
    /\ ~loading
    /\ loading' = TRUE
    /\ cycles' = Append(cycles, [ticker |-> ticker, status |-> "pending"])
    /\ UNCHANGED <<chartVars, ticker, indicators, signal, lastResolved>>
    /\ UNCHANGED <<gradeVars, importanceVars, otherVars, pc>>

\* after the await, all five requests answered, or only the history failed
Commit(c, outcome) ==
    LET t == cycles[c].ticker
    IN /\ pc = "dashboard"
       /\ cycles[c].status = "pending"
       /\ outcome \in {"ok", "history"}
       /\ stockData' = PriceData(t)
       /\ indicators' = IndicatorData(t)
       /\ signal' = SignalData(t)
       /\ prediction' = PredictionData(t)
       /\ predictionHistory' = IF outcome = "ok" THEN HistoryData(t) ELSE <<>>
       /\ loading' = FALSE
       /\ combinedChartData' = buildChartData(stockData', predictionHistory', prediction')
       /\ cycles' = [cycles EXCEPT ![c].status = outcome]
       /\ lastResolved' = c
       /\ UNCHANGED <<ticker, gradeVars, importanceVars, otherVars, pc>>

\* Variant of Reject: the catch block resets the data of the dashboard.
RejectAndClear(c, outcome) ==
    /\ pc = "dashboard"
    /\ cycles[c].status = "pending"
    /\ outcome \in Rejections
    /\ loading' = FALSE
    /\ cycles' = [cycles EXCEPT ![c].status = outcome]
    /\ lastResolved' = c
    /\ stockData' = Null
    /\ prediction' = Null
    /\ predictionHistory' = <<>>
    /\ combinedChartData' = <<>>
    /\ UNCHANGED <<ticker, indicators, signal>>
    /\ UNCHANGED <<gradeVars, importanceVars, otherVars, pc>>

\* Promise.all rejected: catch (alert), finally
Reject(c, outcome) ==
    /\ pc = "dashboard"
    /\ cycles[c].status = "pending"
    /\ outcome \in Rejections
    /\ loading' = FALSE
    /\ cycles' = [cycles EXCEPT ![c].status = outcome]
    /\ lastResolved' = c
    /\ UNCHANGED <<chartVars, ticker, indicators, signal>>
    /\ UNCHANGED <<gradeVars, importanceVars, otherVars, pc>>

NextFetch ==
    \/ \E t \in Tickers : Select(t)
    \/ Analyse
    \/ \E c \in DOMAIN cycles : \E o \in Outcomes : Commit(c, o)
    \/ \E c \in DOMAIN cycles : \E o \in Outcomes : Reject(c, o)

SpecFetch == InitFetch /\ [][NextFetch]_vars

(***************************************************************************)
(* useFavorites in StockDashboard: the favorites are those stored, and     *)
(* each call is made with the favorites of the current render; the effect  *)
(* stores what the call has set.                                           *)
(***************************************************************************)
dashboardVars == <<chartVars, gradeVars, importanceVars, fetchVars>>

DashboardIdle == ChartIdle /\ GradeIdle /\ ImportanceIdle /\ FetchIdle

InitFavorites ==
    /\ DashboardIdle
    /\ favorites \in StoredFavorites
    /\ favoriteCalls = <<>>
    /\ SearchIdle
    /\ GridIdle
    /\ AccuracyIdle
    /\ pc = "favorites"

Called(name, t, result) ==
    /\ pc = "favorites"
    /\ Len(favoriteCalls) < MaxCalls
    /\ favorites' = result.favorites
    /\ favoriteCalls' = Append(favoriteCalls,
                               [name |-> name, ticker |-> t, favorites |-> favorites,
                                returned |-> result.returned])
    /\ UNCHANGED <<dashboardVars, searchVars, gridVars, accuracyVars, pc>>

AddFavorite(t) == Called("addFavorite", t, addFavorite(favorites, t))

RemoveFavorite(t) == Called("removeFavorite", t, removeFavorite(favorites, t))

ToggleFavorite(t) == Called("toggleFavorite", t, toggleFavorite(favorites, t))

NextFavorites ==
    \/ \E t \in CalledTickers : AddFavorite(t)
    \/ \E t \in CalledTickers : RemoveFavorite(t)
    \/ \E t \in CalledTickers : ToggleFavorite(t)

SpecFavorites == InitFavorites /\ [][NextFavorites]_vars

(***************************************************************************)
(* StockSearch: the input, the debounced query and its effect, the search  *)
(* requests in flight, the keys and the clicks.                            *)
(***************************************************************************)
\* mounted with the default initialValue, or by StockDashboard with its
\* ticker, for which the effect sends a request at once
InitSearch ==
    /\ DashboardIdle
    /\ FavoritesIdle
    /\ GridIdle
    /\ AccuracyIdle
    /\ \/ SearchIdle
       \/ /\ inputValue = "AAPL"
          /\ debouncedQuery = "AAPL"
          /\ results = <<>>
          /\ isOpen = FALSE
          /\ searchLoading = TRUE
          /\ activeIndex = 0 - 1
          /\ requests = <<[query |-> "AAPL", status |-> "pending"]>>
          /\ selected = Null
    /\ pc = "search"

searchFrame == <<dashboardVars, favoriteVars, gridVars, accuracyVars, pc>>

\* onChange: setInputValue(e.target.value)
Type(q) ==
    /\ pc = "search"
    /\ q # inputValue
    /\ inputValue' = q
    /\ UNCHANGED <<debouncedQuery, results, isOpen, searchLoading, activeIndex, requests, selected>>
    /\ UNCHANGED searchFrame

\* debouncedQuery takes the input's value; the effect finds it blank
QueryCleared ==
    /\ pc = "search"
    /\ debouncedQuery # inputValue
    /\ Blank(inputValue)
    /\ debouncedQuery' = inputValue
    /\ results' = <<>>
    /\ isOpen' = FALSE
    /\ UNCHANGED <<inputValue, searchLoading, activeIndex, requests, selected>>
    /\ UNCHANGED searchFrame

\* debouncedQuery takes the input's value; the effect calls fetchResults,
\* which runs up to its await
QuerySent ==
    /\ pc = "search"
    /\ debouncedQuery # inputValue
    /\ ~Blank(inputValue)
    /\ Len(requests) < MaxRequests
    /\ debouncedQuery' = inputValue
    /\ searchLoading' = TRUE
    /\ requests' = Append(requests, [query |-> inputValue, status |-> "pending"])
    /\ UNCHANGED <<inputValue, results, isOpen, activeIndex, selected>>
    /\ UNCHANGED searchFrame

\* fetchResults after its await
Answered(r, outcome) ==
    /\ pc = "search"
    /\ requests[r].status = "pending"
    /\ requests' = [requests EXCEPT ![r].status = outcome]
    /\ searchLoading' = FALSE
    /\ CASE outcome = "results" ->
               /\ results' = ResultsOf(requests[r].query)
               /\ isOpen' = (Len(ResultsOf(requests[r].query)) > 0)
               /\ activeIndex' = 0 - 1
         [] outcome = "failed" ->
               /\ results' = <<>>
               /\ UNCHANGED <<isOpen, activeIndex>>
         [] OTHER -> UNCHANGED <<results, isOpen, activeIndex>>
    /\ UNCHANGED <<inputValue, debouncedQuery, selected>>
    /\ UNCHANGED searchFrame

handleSelect(stock) ==
    /\ inputValue' = stock.ticker
    /\ isOpen' = FALSE
    /\ results' = <<>>
    /\ selected' = Str(stock.ticker)
    /\ UNCHANGED <<debouncedQuery, searchLoading, activeIndex, requests>>
    /\ UNCHANGED searchFrame

\* a click on an item of the dropdown
ClickItem(i) ==
    /\ pc = "search"
    /\ isOpen
    /\ i \in DOMAIN results
    /\ handleSelect(results[i])

ArrowDown ==
    /\ pc = "search"
    /\ isOpen
    /\ activeIndex' = ArrowDownIndex(activeIndex, results)
    /\ UNCHANGED <<inputValue, debouncedQuery, results, isOpen, searchLoading, requests, selected>>
    /\ UNCHANGED searchFrame

ArrowUp ==
    /\ pc = "search"
    /\ isOpen
    /\ activeIndex' = ArrowUpIndex(activeIndex)
    /\ UNCHANGED <<inputValue, debouncedQuery, results, isOpen, searchLoading, requests, selected>>
    /\ UNCHANGED searchFrame

Enter ==
    /\ pc = "search"
    /\ isOpen
    /\ IF activeIndex >= 0 /\ activeIndex + 1 \in DOMAIN results
       THEN handleSelect(results[activeIndex + 1])
       ELSE IF Len(results) > 0
            THEN handleSelect(results[1])
            ELSE UNCHANGED <<searchVars, searchFrame>>

\* the Escape key, or a mousedown outside the component
Close ==
    /\ pc = "search"
    /\ isOpen
    /\ isOpen' = FALSE
    /\ UNCHANGED <<inputValue, debouncedQuery, results, searchLoading, activeIndex, requests, selected>>
    /\ UNCHANGED searchFrame

\* onFocus: results.length > 0 && setIsOpen(true)
Focus ==
    /\ pc = "search"
    /\ Len(results) > 0
    /\ isOpen' = TRUE
    /\ UNCHANGED <<inputValue, debouncedQuery, results, searchLoading, activeIndex, requests, selected>>
    /\ UNCHANGED searchFrame

NextSearch ==
    \/ \E q \in Queries : Type(q)
    \/ QueryCleared
    \/ QuerySent
    \/ \E r \in DOMAIN requests : \E o \in SearchOutcomes : Answered(r, o)
    \/ \E i \in DOMAIN results : ClickItem(i)
    \/ ArrowDown
    \/ ArrowUp
    \/ Enter
    \/ Close
    \/ Focus

SpecSearch == InitSearch /\ [][NextSearch]_vars

(***************************************************************************)
(* FavoriteGrid: its two effects on [favorites], the interval's callback,  *)
(* the answers to the batch-price requests and the unmount.                *)
(***************************************************************************)
gridFrame == <<dashboardVars, favoriteVars, searchVars, accuracyVars, pc>>

\* fetchBatchPrices with the given favorites, up to its await
fetchBatchPrices(favs) ==
    IF Len(favs) = 0
    THEN /\ stocksData' = <<>>
         /\ UNCHANGED <<gridLoading, gridError, batches>>
    ELSE /\ gridLoading' = TRUE
         /\ gridError' = Null
         /\ batches' = Append(batches, [tickers |-> favs, status |-> "pending"])
         /\ UNCHANGED stocksData

\* the polling effect with the given favorites, after the cleanup of the
\* previous one left the timers cleared
PollingEffect(favs, cleared) ==
    IF Len(favs) = 0
    THEN /\ timers' = cleared
         /\ interval' = 0
         /\ UNCHANGED timersCreated
    ELSE /\ timers' = cleared \cup {timersCreated + 1}
         /\ interval' = timersCreated + 1
         /\ timersCreated' = timersCreated + 1

\* the mount: both effects run with the favorites given
InitGrid ==
    /\ DashboardIdle
    /\ FavoritesIdle
    /\ SearchIdle
    /\ AccuracyIdle
    /\ pc = "grid"
    /\ mounted = TRUE
    /\ gridFavorites \in ShownFavorites
    /\ stocksData = <<>>
    /\ gridError = Null
    /\ gridLoading = (Len(gridFavorites) > 0)
    /\ batches = IF Len(gridFavorites) = 0 THEN <<>>
                 ELSE <<[tickers |-> gridFavorites, status |-> "pending"]>>
    /\ timers = IF Len(gridFavorites) = 0 THEN {} ELSE {1}
    /\ interval = IF Len(gridFavorites) = 0 THEN 0 ELSE 1
    /\ timersCreated = IF Len(gridFavorites) = 0 THEN 0 ELSE 1

\* the favorites prop changes: the cleanup of the polling effect, then both
\* effects with the new favorites
ChangeFavorites(favs) ==
    /\ pc = "grid"
    /\ mounted
    /\ favs # gridFavorites
    /\ Len(batches) < MaxBatches
    /\ gridFavorites' = favs
    /\ fetchBatchPrices(favs)
    /\ PollingEffect(favs, ClearInterval(timers, interval))
    /\ UNCHANGED mounted
    /\ UNCHANGED gridFrame

\* the callback of an interval that is set
Tick(id) ==
    /\ pc = "grid"
    /\ mounted
    /\ id \in timers
    /\ Len(batches) < MaxBatches
    /\ fetchBatchPrices(gridFavorites)
    /\ UNCHANGED <<gridFavorites, timers, interval, timersCreated, mounted>>
    /\ UNCHANGED gridFrame

\* fetchBatchPrices after its await
BatchAnswered(b, outcome) ==
    /\ pc = "grid"
    /\ mounted
    /\ batches[b].status = "pending"
    /\ batches' = [batches EXCEPT ![b].status = outcome]
    /\ gridLoading' = FALSE
    /\ stocksData' = IF outcome = "stocks" THEN StocksOf(batches[b].tickers)
                       ELSE stocksData
    /\ gridError' = IF outcome = "failed" THEN Str("failed") ELSE gridError
    /\ UNCHANGED <<gridFavorites, timers, interval, timersCreated, mounted>>
    /\ UNCHANGED gridFrame

\* the unmount: the cleanup of the polling effect
Unmount ==
    /\ pc = "grid"
    /\ mounted
    /\ mounted' = FALSE
    /\ timers' = ClearInterval(timers, interval)
    /\ interval' = 0
    /\ UNCHANGED <<gridFavorites, stocksData, gridLoading, gridError, batches, timersCreated>>
    /\ UNCHANGED gridFrame

NextGrid ==
    \/ \E favs \in ShownFavorites : ChangeFavorites(favs)
    \/ \E id \in timers : Tick(id)
    \/ \E b \in DOMAIN batches : \E o \in BatchOutcomes : BatchAnswered(b, o)
    \/ Unmount

SpecGrid == InitGrid /\ [][NextGrid]_vars

(***************************************************************************)
(* PredictionAccuracy: the effect on [ticker], loadData, and               *)
(* handleUpdateActuals, which posts and then awaits a loadData.            *)
(***************************************************************************)
accuracyFrame == <<dashboardVars, favoriteVars, searchVars, gridVars, pc>>

\* loadData(t) up to its await
loadData(t, awaited) ==
    /\ accLoading' = TRUE
    /\ accError' = Null
    /\ loads' = Append(loads, [ticker |-> t, status |-> "pending", awaited |-> awaited])

\* the mount: without a ticker, or with one, for which the effect loads
InitAccuracy ==
    /\ DashboardIdle
    /\ FavoritesIdle
    /\ SearchIdle
    /\ GridIdle
    /\ pc = "accuracy"
    /\ \/ AccuracyIdle
       \/ /\ tickerProp \in Tickers
          /\ accuracy = Null
          /\ history = <<>>
          /\ accLoading = TRUE
          /\ updating = FALSE
          /\ accError = Null
          /\ loads = <<[ticker |-> tickerProp, status |-> "pending", awaited |-> FALSE]>>
          /\ update = Null

\* the ticker prop changes: the effect
ChangeTicker(t) ==
    /\ pc = "accuracy"
    /\ t # tickerProp
    /\ Len(loads) < MaxLoads
    /\ tickerProp' = t
    /\ loadData(t, FALSE)
    /\ UNCHANGED <<accuracy, history, updating, update>>
    /\ UNCHANGED accuracyFrame

\* loadData after its await; handleUpdateActuals, when it awaits this call,
\* goes on to its finally
LoadAnswered(l, outcome) ==
    /\ pc = "accuracy"
    /\ loads[l].status = "pending"
    /\ loads' = [loads EXCEPT ![l].status = outcome]
    /\ IF outcome = "ok"
       THEN /\ accuracy' = AccuracyData(loads[l].ticker)
            /\ history' = HistoryData(loads[l].ticker)
            /\ UNCHANGED accError
       ELSE /\ accuracy' = Caught(outcome, accuracy, history, accError).accuracy
            /\ history' = Caught(outcome, accuracy, history, accError).history
            /\ accError' = Caught(outcome, accuracy, history, accError).error
    /\ accLoading' = FALSE
    /\ updating' = IF loads[l].awaited THEN FALSE ELSE updating
    /\ UNCHANGED <<tickerProp, update>>
    /\ UNCHANGED accuracyFrame

\* handleUpdateActuals up to the await of its post
UpdateActuals ==
    /\ pc = "accuracy"
    /\ ~updating
    /\ tickerProp # ""
    /\ updating' = TRUE
    /\ update' = Str(tickerProp)
    /\ UNCHANGED <<tickerProp, accuracy, history, accLoading, accError, loads>>
    /\ UNCHANGED accuracyFrame

\* the post is answered: loadData for the ticker of the click
UpdatePosted ==
    /\ pc = "accuracy"
    /\ update # Null
    /\ Len(loads) < MaxLoads
    /\ update' = Null
    /\ loadData(update.v, TRUE)
    /\ UNCHANGED <<tickerProp, accuracy, history, updating>>
    /\ UNCHANGED accuracyFrame

\* the post fails: catch, finally
UpdateFailed ==
    /\ pc = "accuracy"
    /\ update # Null
    /\ update' = Null
    /\ updating' = FALSE
    /\ UNCHANGED <<tickerProp, accuracy, history, accLoading, accError, loads>>
    /\ UNCHANGED accuracyFrame

NextAccuracy ==
    \/ \E t \in Tickers : ChangeTicker(t)
    \/ \E l \in DOMAIN loads : \E o \in LoadOutcomes : LoadAnswered(l, o)
    \/ UpdateActuals
    \/ UpdatePosted
    \/ UpdateFailed

SpecAccuracy == InitAccuracy /\ [][NextAccuracy]_vars

(***************************************************************************)
(* What the claims speak of.                                               *)
(***************************************************************************)
Rendered == pc = "rendered"

\* the price window: the last 30 prices, none when there is no price list
Window == IF NoPrices(stockData) THEN <<>>
          ELSE SliceLast(stockData.prices.items, WindowSize)

Forward == ForwardOf(prediction)

\* the result without the points that follow the historical ones
HistoricalSegment ==
    IF Len(combinedChartData) >= Len(Forward)
    THEN SubSeq(combinedChartData, 1, Len(combinedChartData) - Len(Forward))
    ELSE <<>>

ForwardSegment ==
    IF Len(combinedChartData) >= Len(Forward)
    THEN SubSeq(combinedChartData, Len(combinedChartData) - Len(Forward) + 1,
                Len(combinedChartData))
    ELSE <<>>

\* a record for which an actual price has been recorded
IsEvaluated(h) == h.actual_price.kind = "number"

\* the date of record h is the date of a price point of the window
InWindow(dt) == \E j \in DOMAIN Window : Window[j].date = dt

Present(v) == v # Undefined /\ v # Null

RemoveAt(s, k) == SubSeq(s, 1, k - 1) \o SubSeq(s, k + 1, Len(s))

Last(S) == CHOOSE k \in S : \A l \in S : l <= k

(***************************************************************************)
(* C1.  When forward predictions are supplied and the price window is not  *)
(* empty, the last historical point of the result has predicted equal to   *)
(* its own price, also when an evaluated prediction of another price was   *)
(* attached to it; the predicted of every other historical point is what   *)
(* the merge of the history left there.                                    *)
(***************************************************************************)
C1_BridgeOverridesLastPoint ==
    (Rendered /\ HasPredictions(prediction) /\ Window # <<>>) =>
        LET hist == HistoricalSegment
            n == Len(hist)
            before == Historical(stockData, predictionHistory)
        IN /\ n >= 1
           /\ n = Len(before)
           /\ hist[n].price = before[n].price
           /\ hist[n].predicted = hist[n].price
           /\ \A i \in 1..(n - 1) : hist[i] = before[i]

\* a bridge over a last point that carried the prediction of an evaluated
\* record, of another value than its price, with forward points behind it
C1_Witness ==
    /\ Rendered
    /\ HasPredictions(prediction)
    /\ Forward # <<>>
    /\ Len(HistoricalSegment) >= 2
    /\ \E k \in DOMAIN predictionHistory :
          LET h == predictionHistory[k]
              last == HistoricalSegment[Len(HistoricalSegment)]
          IN /\ IsEvaluated(h)
             /\ formatDate(h.target_date) = last.date
             /\ h.predicted_price # last.price
             /\ last.predicted = last.price

AttachedTo(lbl) ==
    {k \in DOMAIN predictionHistory :
        /\ predictionHistory[k].actual_price # Null
        /\ formatDate(predictionHistory[k].target_date) = lbl}

C3_OutOfWindowDropped ==
    Rendered =>
        \A k \in DOMAIN predictionHistory :
            (IsEvaluated(predictionHistory[k])
                /\ ~InWindow(predictionHistory[k].target_date)) =>
                combinedChartData =
                    buildChartData(stockData, RemoveAt(predictionHistory, k), prediction)

(***************************************************************************)
(* C4 as claimed.  buildChartData appends one point per forward            *)
(* prediction, in input order and without merging equal dates; each has no *)
(* price and has predicted equal to corrected_price when corrected_price   *)
(* is present and not null, whatever its numeric value, and equal to       *)
(* predicted_price otherwise.                                              *)
(***************************************************************************)
C4_ForwardPointsAppended ==
    (Rendered /\ ~NoPrices(stockData)) =>
        LET hist == Historical(stockData, predictionHistory)
        IN /\ Len(combinedChartData) = Len(hist) + Len(Forward)
           /\ \A j \in DOMAIN Forward :
                 combinedChartData[Len(hist) + j] =
                     [date |-> formatDate(Forward[j].date),
                      price |-> Undefined,
                      predicted |-> IF Present(Forward[j].corrected_price)
                                    THEN Forward[j].corrected_price
                                    ELSE Forward[j].predicted_price]

\* the points of the window fall on different days
DistinctDays ==
    \A i \in DOMAIN Window : \A j \in DOMAIN Window :
        i # j => Window[i].date # Window[j].date

(***************************************************************************)
(* C5 as claimed.  For a price window that is not empty, with no history   *)
(* record and no forward prediction (the collection absent or empty), the  *)
(* result has as many points as the window and no point has a predicted.   *)
(* Stated for the windows whose points fall on different days.             *)
(***************************************************************************)
C5_NoPredictionsNoPredicted ==
    (Rendered /\ Window # <<>> /\ DistinctDays
        /\ predictionHistory = <<>> /\ Forward = <<>>) =>
        /\ Len(combinedChartData) = Len(Window)
        /\ \A i \in DOMAIN combinedChartData : combinedChartData[i].predicted = Undefined

(***************************************************************************)
(* C6 as claimed.  When the price window is empty (the price list is empty *)
(* or absent), buildChartData returns the empty sequence whatever forward  *)
(* predictions and history records are supplied.                           *)
(***************************************************************************)
C6_EmptyWindowEmptyResult ==
    (Rendered /\ Window = <<>>) => combinedChartData = <<>>

\* the day of the first price point of the window that has day label lbl
FirstDayOf(lbl) ==
    LET js == {j \in DOMAIN Window : formatDate(Window[j].date) = lbl}
    IN DayNumber(Window[CHOOSE j \in js : \A l \in js : j <= l].date)

\* The result is in date order: the historical points ascend, the forward
\* points are the forward predictions in their order, and each comes after
\* every historical point.
DateOrdered ==
    LET hist == HistoricalSegment
        fwd == ForwardSegment
    IN /\ Len(combinedChartData) = Len(hist) + Len(Forward)
       /\ \A i \in DOMAIN hist : \E j \in DOMAIN Window :
             formatDate(Window[j].date) = hist[i].date
       /\ \A i \in DOMAIN hist : \A j \in DOMAIN hist :
             i < j => FirstDayOf(hist[i].date) < FirstDayOf(hist[j].date)
       /\ \A j \in DOMAIN Forward : fwd[j].date = formatDate(Forward[j].date)
       /\ \A i \in DOMAIN hist : \A j \in DOMAIN Forward :
             FirstDayOf(hist[i].date) < DayNumber(Forward[j].date)

(***************************************************************************)
(* C7 as claimed.  The result is date-ordered over its whole length (the   *)
(* historical segment ascending, every forward point after it) for every   *)
(* price window and every forward sequence that are each date-ordered.     *)
(***************************************************************************)
C7_DateOrdered ==
    (Rendered /\ ~NoPrices(stockData)
        /\ Chronological(Window) /\ Chronological(Forward)) =>
        DateOrdered

\* every forward prediction is dated after every price point of the window
ForwardAfterWindow ==
    \A i \in DOMAIN Window : \A j \in DOMAIN Forward :
        DayNumber(Window[i].date) < DayNumber(Forward[j].date)

(***************************************************************************)
(* C7 as amended.  The result is date-ordered over its whole length (the   *)
(* historical points ascending, each taken at the first price point of its *)
(* day; every forward point after them) for every price window and forward *)
(* sequence that are each date-ordered and such that every forward         *)
(* prediction is dated after the last price point of the window.           *)
(***************************************************************************)
C7_DateOrderedWhenForwardFollows ==
    (Rendered /\ ~NoPrices(stockData)
        /\ Chronological(Window) /\ Chronological(Forward)
        /\ ForwardAfterWindow) =>
        DateOrdered

\* two days of prices followed by two forward predictions
C7_Witness ==
    /\ Rendered
    /\ Len(Window) >= 2 /\ DistinctDays
    /\ Len(Forward) >= 2
    /\ Chronological(Forward)
    /\ ForwardAfterWindow
    /\ Len(combinedChartData) = Len(Window) + Len(Forward)

(***************************************************************************)
(* C8.  Every point of the result has a price or a predicted, the price    *)
(* points having a close and the forward predictions a predicted_price.    *)
(***************************************************************************)
C8_PriceOrPredicted ==
    (Rendered
        /\ (\A j \in DOMAIN Window : Present(Window[j].close))
        /\ (\A j \in DOMAIN Forward : Present(Forward[j].predicted_price))) =>
        \A i \in DOMAIN combinedChartData :
            Present(combinedChartData[i].price) \/ Present(combinedChartData[i].predicted)

\* a historical point without predicted, and a forward point that has no
\* corrected price to show
C8_Witness ==
    /\ Rendered
    /\ \E i \in DOMAIN HistoricalSegment :
          ~Present(HistoricalSegment[i].predicted) /\ Present(HistoricalSegment[i].price)
    /\ \E j \in DOMAIN Forward :
          /\ ~Present(Forward[j].corrected_price)
          /\ ~Present(ForwardSegment[j].price)
          /\ Present(ForwardSegment[j].predicted)

(***************************************************************************)
(* C9.  No two points of the historical segment of the result share a      *)
(* date, also when the window holds several price points of a day or       *)
(* several evaluated records target the same day.                          *)
(***************************************************************************)
C9_HistoricalDatesDistinct ==
    Rendered =>
        \A i \in DOMAIN HistoricalSegment : \A j \in DOMAIN HistoricalSegment :
            i # j => HistoricalSegment[i].date # HistoricalSegment[j].date

\* two price points of one day, merged into one historical point
C9_Witness ==
    /\ Rendered
    /\ Len(Window) >= 2
    /\ ~DistinctDays
    /\ Len(HistoricalSegment) = 1

Day(d) == [y |-> ThisYear, m |-> 1, d |-> d]

ExampleStockData ==
    [kind |-> "object",
     prices |-> Arr(<<[date |-> Day(1), close |-> Num(100)],
                      [date |-> Day(2), close |-> Num(102)]>>)]

ExampleHistory ==
    <<[target_date |-> Day(2), predicted_price |-> Num(101), actual_price |-> Num(102)]>>

ExamplePrediction ==
    [kind |-> "object",
     predictions |-> Arr(<<[date |-> Day(3), predicted_price |-> Num(105),
                           corrected_price |-> Undefined]>>)]

IsExample ==
    /\ stockData = ExampleStockData
    /\ predictionHistory = ExampleHistory
    /\ prediction = ExamplePrediction

(***************************************************************************)
(* C10.  With the price window [(01-01, 100), (01-02, 102)], the evaluated *)
(* prediction (01-02, predicted 101, actual 102) and the forward           *)
(* prediction (01-03, predicted 105), the result is the three points       *)
(* (01-01, price 100), (01-02, price 102, predicted 102) and               *)
(* (01-03, predicted 105), in this order.                                  *)
(***************************************************************************)
C10_Example ==
    (Rendered /\ IsExample) =>
        combinedChartData =
            <<[date |-> formatDate(Day(1)), price |-> Num(100), predicted |-> Undefined],
              [date |-> formatDate(Day(2)), price |-> Num(102), predicted |-> Num(102)],
              [date |-> formatDate(Day(3)), price |-> Undefined, predicted |-> Num(105)]>>

C10_Witness == Rendered /\ IsExample

Graded == pc = "graded"

IsNumber(v) == v.kind = "number"

\* the grade of a cost metric of bounds b1 < b2, for a value of t tenths
CostGrade(t, b1, b2) ==
    IF t < b1 * 10 THEN "very accurate"
    ELSE IF t < b2 * 10 THEN "good"
    ELSE "needs improvement"

(***************************************************************************)
(* C12.  For the cost metrics (MAE of bounds 5 and 15, MAPE 5 and 10, RMSE *)
(* 8 and 20) and every numeric value, getGrade returns "very accurate"     *)
(* below the first bound, "good" from the first bound and below the        *)
(* second, and "needs improvement" from the second bound on.               *)
(***************************************************************************)
C12_CostGrades ==
    (Graded /\ IsNumber(value)) =>
        /\ metricKey = "mae" =>
              gradeInfo # Null /\ gradeInfo.grade = CostGrade(value.v, 5, 15)
        /\ metricKey = "mape" =>
              gradeInfo # Null /\ gradeInfo.grade = CostGrade(value.v, 5, 10)
        /\ metricKey = "rmse" =>
              gradeInfo # Null /\ gradeInfo.grade = CostGrade(value.v, 8, 20)

\* a value on a bound, graded in the worse tier: MAE 5.0 is "good"
C12_Witness ==
    /\ Graded
    /\ metricKey = "mae"
    /\ value = Num(50)
    /\ gradeInfo # Null
    /\ gradeInfo.grade = "good"

(***************************************************************************)
(* C13 as claimed.  For the directional accuracy and every numeric value   *)
(* v, getGrade returns "excellent" when v >= 60, "fair" when               *)
(* 50 <= v < 60, and "poor" for every other numeric value.                 *)
(***************************************************************************)
C13_DirectionGrades ==
    (Graded /\ IsNumber(value) /\ metricKey = "direction_accuracy") =>
        /\ gradeInfo # Null
        /\ gradeInfo.grade = IF value.v >= 600 THEN "excellent"
                             ELSE IF value.v >= 500 THEN "fair"
                             ELSE "poor"

(***************************************************************************)
(* C14.  For every metric key, getGrade of a null or undefined value       *)
(* returns the no-grade result (null), which no numeric value's grade is:  *)
(* a grade is returned for numeric values only, the worst one included.    *)
(***************************************************************************)
C14_NoGradeForNoValue ==
    Graded =>
        /\ (value = Null \/ value = Undefined) => gradeInfo = Null
        /\ gradeInfo # Null =>
              /\ IsNumber(value)
              /\ gradeInfo.grade \in {"very accurate", "good", "needs improvement",
                                      "excellent", "fair", "poor"}

\* a graded card without a value, and so without a grade
C14_Witness ==
    /\ Graded
    /\ metricKey \in DOMAIN METRIC_INFO
    /\ value = Null
    /\ gradeInfo = Null

Drawn == pc = "drawn"

(***************************************************************************)
(* C15.  For a feature-importance list of n entries, min(3, n) entries are *)
(* marked dominant, and they are the entries at the first three positions  *)
(* of the list as received.                                                *)
(***************************************************************************)
C15_TopThreeDominant ==
    Drawn =>
        LET n == Len(featureImportance)
        IN /\ Len(importanceRows) = n
           /\ Cardinality({k \in 1..n : importanceRows[k].isTop3}) = Min(3, n)
           /\ \A k \in 1..n :
                 /\ importanceRows[k].isTop3 <=> k <= 3
                 /\ importanceRows[k].feature = featureImportance[k].feature

\* four entries, the fourth not dominant
C15_Witness ==
    /\ Drawn
    /\ Len(featureImportance) = 4
    /\ importanceRows[3].isTop3
    /\ ~importanceRows[4].isTop3

(***************************************************************************)
(* C16.  For every importance entry the display width is                   *)
(* max(2, importance * 100), never below 2, and the clamping changes the   *)
(* width only: the percentage label, and the entry of the list, keep the   *)
(* unclamped importance.                                                   *)
(***************************************************************************)
C16_WidthClamped ==
    Drawn =>
        /\ Len(importanceRows) = Len(featureImportance)
        /\ \A k \in DOMAIN importanceRows :
              LET imp == featureImportance[k].importance
              IN /\ importanceRows[k].width >= 2 * 10
                 /\ importanceRows[k].width = IF imp > 2 * 10 THEN imp ELSE 2 * 10
                 /\ importanceRows[k].label = imp
                 /\ featureImportance[k] \in ImportanceEntries

\* an importance of 0.001: width 2, label 0.1
C16_Witness ==
    /\ Drawn
    /\ \E k \in DOMAIN importanceRows :
          /\ featureImportance[k].importance = 1
          /\ importanceRows[k].width = 20
          /\ importanceRows[k].label = 1

(***************************************************************************)
(* C17.  The feature-importance transform does not sort: the rows are the  *)
(* entries of the list in the same order and number, whatever their        *)
(* importance, and the described features are the first three of the list. *)
(***************************************************************************)
C17_NoSorting ==
    Drawn =>
        LET n == Len(featureImportance)
        IN /\ Len(importanceRows) = n
           /\ \A k \in 1..n :
                 /\ importanceRows[k].feature = featureImportance[k].feature
                 /\ importanceRows[k].label = featureImportance[k].importance
           /\ Len(topDescriptions) = Min(3, n)
           /\ \A k \in DOMAIN topDescriptions :
                 topDescriptions[k].feature = featureImportance[k].feature

\* a list received in ascending importance, drawn in that order
C17_Witness ==
    /\ Drawn
    /\ Len(featureImportance) = 4
    /\ \A k \in 1..3 :
          featureImportance[k].importance < featureImportance[k + 1].importance
    /\ \A k \in 1..4 : importanceRows[k].label = featureImportance[k].importance

(***************************************************************************)
(* C18 as claimed.  When fetchAllData cycles overlap, the output of a      *)
(* superseded cycle is discarded: in whatever order the responses resolve, *)
(* once no cycle is in flight the committed stockData, indicators, signal, *)
(* prediction and predictionHistory come from the cycle started last,      *)
(* whose ticker is the displayed ticker.  Stated for the runs in which no  *)
(* cycle is rejected.                                                      *)
(***************************************************************************)
C18_LastStartedCycleShown ==
    (cycles # <<>> /\ \A c \in DOMAIN cycles : cycles[c].status \in {"ok", "history"}) =>
        LET last == cycles[Len(cycles)]
        IN /\ last.ticker = ticker
           /\ stockData = PriceData(ticker)
           /\ indicators = IndicatorData(ticker)
           /\ signal = SignalData(ticker)
           /\ prediction = PredictionData(ticker)
           /\ predictionHistory = IF last.status = "ok" THEN HistoryData(ticker) ELSE <<>>

(***************************************************************************)
(* C19 as claimed.  After a fetchAllData cycle in which the price, the     *)
(* prediction or the prediction-history request failed, the corresponding  *)
(* input of buildChartData is empty or absent, and the chart data are what *)
(* buildChartData returns for the state.                                   *)
(***************************************************************************)
C19_FailureGivesEmptyInput ==
    lastResolved # 0 =>
        LET st == cycles[lastResolved].status
        IN /\ st = "prices" => Window = <<>>
           /\ st = "predictions" => Forward = <<>>
           /\ st = "history" => predictionHistory = <<>>
           /\ combinedChartData = buildChartData(stockData, predictionHistory, prediction)

(***************************************************************************)
(* C20 as claimed.  A prediction-history record whose actual_price is null *)
(* or missing never sets a point's predicted, also when its target date is *)
(* in the window: the result is the one returned without that record.      *)
(***************************************************************************)
C20_UnevaluatedIgnored ==
    Rendered =>
        \A k \in DOMAIN predictionHistory :
            (predictionHistory[k].actual_price = Null
                \/ predictionHistory[k].actual_price = Undefined) =>
                combinedChartData =
                    buildChartData(stockData, RemoveAt(predictionHistory, k), prediction)

(***************************************************************************)
(* C21.  Attaching evaluated predictions and applying the bridge change    *)
(* only predicted fields: the historical points are as many, in the same   *)
(* order, with the same date and price, as the points of the series built  *)
(* from the price window alone.                                            *)
(***************************************************************************)
C21_OnlyPredictedChanged ==
    Rendered =>
        LET alone == buildChartData(stockData, <<>>, Null)
            hist == HistoricalSegment
        IN /\ Len(hist) = Len(alone)
           /\ \A i \in DOMAIN alone :
                  /\ hist[i].date = alone[i].date
                  /\ hist[i].price = alone[i].price

\* a record attached to a point that is not the last, a record outside the
\* window, and the bridge on the last point
C21_Witness ==
    /\ Rendered
    /\ Forward # <<>>
    /\ Len(HistoricalSegment) >= 2
    /\ HistoricalSegment[1].predicted.kind = "number"
    /\ HistoricalSegment[1].predicted # HistoricalSegment[1].price
    /\ HistoricalSegment[Len(HistoricalSegment)].predicted
           = HistoricalSegment[Len(HistoricalSegment)].price
    /\ \E k \in DOMAIN predictionHistory :
           /\ IsEvaluated(predictionHistory[k])
           /\ ~InWindow(predictionHistory[k].target_date)

\* cycle c ends in this step
Ends(c) == c \in DOMAIN cycles /\ cycles[c].status = "pending" /\ cycles'[c].status # "pending"

(***************************************************************************)
(* C22.  A fetchAllData cycle commits all or nothing: when the price, the  *)
(* indicator, the signal or the prediction request fails, the cycle        *)
(* changes none of stockData, indicators, signal, prediction and           *)
(* predictionHistory; when only the prediction-history request fails, the  *)
(* other four results are committed and predictionHistory is the empty     *)
(* list.                                                                   *)
(***************************************************************************)
C22_AllOrNothing ==
    [][\A c \in DOMAIN cycles :
          Ends(c) =>
              /\ cycles'[c].status \in Rejections =>
                     UNCHANGED <<stockData, indicators, signal, prediction, predictionHistory>>
              /\ cycles'[c].status = "history" =>
                     /\ stockData' = PriceData(cycles[c].ticker)
                     /\ indicators' = IndicatorData(cycles[c].ticker)
                     /\ signal' = SignalData(cycles[c].ticker)
                     /\ prediction' = PredictionData(cycles[c].ticker)
                     /\ predictionHistory' = <<>>]_vars

\* a cycle has committed all five results, a second one, of the other
\* ticker, has lost its history request alone and committed the other four,
\* and a third one was rejected last and left them
C22_Witness ==
    \E c1, c2, c3 \in DOMAIN cycles :
        /\ cycles[c1].status = "ok"
        /\ cycles[c2].status = "history"
        /\ cycles[c2].ticker # cycles[c1].ticker
        /\ cycles[c3].status \in Rejections
        /\ lastResolved = c3
        /\ stockData = PriceData(cycles[c2].ticker)
        /\ prediction = PredictionData(cycles[c2].ticker)
        /\ predictionHistory = <<>>

(***************************************************************************)
(* C23 as claimed.  The loading flag of StockDashboard is true exactly     *)
(* while at least one fetchAllData cycle is in flight: never false while a *)
(* cycle awaits its responses, false once every cycle has ended.           *)
(***************************************************************************)
C23_LoadingWhileInFlight ==
    loading = (\E c \in DOMAIN cycles : cycles[c].status = "pending")

\* the favorites after the i-th call
FavoritesAfter(i) ==
    IF i < Len(favoriteCalls) THEN favoriteCalls[i + 1].favorites ELSE favorites

TickersOf(list) == {list[i] : i \in DOMAIN list}

NoTickerTwice(list) == \A i, j \in DOMAIN list : list[i] = list[j] => i = j

(***************************************************************************)
(* C24.  From a stored list without duplicates and of at most 20 entries,  *)
(* after any calls of addFavorite, removeFavorite and toggleFavorite the   *)
(* favorites hold no ticker twice and at most 20 tickers; an addFavorite   *)
(* at 20 entries leaves the list unchanged and returns false.              *)
(***************************************************************************)
C24_NoDuplicateAtMostTwenty ==
    /\ NoTickerTwice(favorites)
    /\ Len(favorites) <= MAX_FAVORITES
    /\ \A i \in DOMAIN favoriteCalls :
           (favoriteCalls[i].name = "addFavorite"
               /\ Len(favoriteCalls[i].favorites) = MAX_FAVORITES) =>
               /\ favoriteCalls[i].returned = Bool(FALSE)
               /\ FavoritesAfter(i) = favoriteCalls[i].favorites

\* addFavorite of a new ticker at 20 entries, after an addFavorite that
\* filled the list, and an addFavorite of a ticker of the list
C24_Witness ==
    \E i, j, k \in DOMAIN favoriteCalls :
        /\ favoriteCalls[i].name = "addFavorite"
        /\ Len(favoriteCalls[i].favorites) = MAX_FAVORITES
        /\ ~Includes(favoriteCalls[i].favorites, favoriteCalls[i].ticker)
        /\ favoriteCalls[j].name = "addFavorite"
        /\ favoriteCalls[j].returned = Bool(TRUE)
        /\ Len(FavoritesAfter(j)) = MAX_FAVORITES
        /\ favoriteCalls[k].name = "addFavorite"
        /\ Len(favoriteCalls[k].favorites) < MAX_FAVORITES
        /\ Includes(favoriteCalls[k].favorites, favoriteCalls[k].ticker)

(***************************************************************************)
(* C25.  toggleFavorite(t) removes t and returns false when t is in the    *)
(* list; appends t and returns true when t is not in the list and the list *)
(* has fewer than 20 entries; leaves the list unchanged and returns false  *)
(* when t is not in the list and the list has 20 entries.  The returned    *)
(* value is isFavorite(t) after the call, and two successive toggles of t  *)
(* restore the original set of favorites.                                  *)
(***************************************************************************)
C25_Toggle ==
    /\ \A i \in DOMAIN favoriteCalls :
           favoriteCalls[i].name = "toggleFavorite" =>
               LET t == favoriteCalls[i].ticker
                   before == favoriteCalls[i].favorites
                   after == FavoritesAfter(i)
                   returned == favoriteCalls[i].returned
               IN /\ Includes(before, t) =>
                         /\ after = SelectSeq(before, LAMBDA f : f # t)
                         /\ ~Includes(after, t)
                         /\ returned = Bool(FALSE)
                  /\ (~Includes(before, t) /\ Len(before) < MAX_FAVORITES) =>
                         /\ after = Append(before, t)
                         /\ returned = Bool(TRUE)
                  /\ (~Includes(before, t) /\ Len(before) >= MAX_FAVORITES) =>
                         /\ after = before
                         /\ returned = Bool(FALSE)
                  /\ returned = Bool(isFavorite(after, t))
    /\ \A i \in DOMAIN favoriteCalls :
           (/\ i < Len(favoriteCalls)
            /\ favoriteCalls[i].name = "toggleFavorite"
            /\ favoriteCalls[i + 1].name = "toggleFavorite"
            /\ favoriteCalls[i + 1].ticker = favoriteCalls[i].ticker) =>
               TickersOf(FavoritesAfter(i + 1)) = TickersOf(favoriteCalls[i].favorites)

\* two successive toggles of a ticker of a full list, which bring it back at
\* the end of the list, and a toggle of a new ticker at 20 entries
C25_Witness ==
    \E i, k \in DOMAIN favoriteCalls :
        /\ i < Len(favoriteCalls)
        /\ favoriteCalls[i].name = "toggleFavorite"
        /\ favoriteCalls[i + 1].name = "toggleFavorite"
        /\ favoriteCalls[i + 1].ticker = favoriteCalls[i].ticker
        /\ Len(favoriteCalls[i].favorites) = MAX_FAVORITES
        /\ Includes(favoriteCalls[i].favorites, favoriteCalls[i].ticker)
        /\ FavoritesAfter(i + 1) # favoriteCalls[i].favorites
        /\ favoriteCalls[k].name = "toggleFavorite"
        /\ Len(favoriteCalls[k].favorites) = MAX_FAVORITES
        /\ ~Includes(favoriteCalls[k].favorites, favoriteCalls[k].ticker)

C27_OlderNeverReplacesNewer ==
    [][\A r \in DOMAIN requests :
          (/\ requests[r].status = "pending"
           /\ requests'[r].status # "pending"
           /\ \E n \in DOMAIN requests : n > r /\ requests[n].status = "results") =>
              results' = results]_vars

(***************************************************************************)
(* C28.  In FavoriteGrid exactly one refresh timer is set while the        *)
(* favorites are not empty and none while they are empty or the grid is    *)
(* unmounted: a change of the favorites clears the previous timer before   *)
(* it sets a new one, and it sends one batch-price request for the new     *)
(* favorites at once, or clears stocksData when the list became empty.     *)
(***************************************************************************)
C28_OneTimer ==
    /\ [](Cardinality(timers) = IF mounted /\ gridFavorites # <<>> THEN 1 ELSE 0)
    /\ [][gridFavorites' # gridFavorites =>
             /\ timers' \cap timers = {}
             /\ IF gridFavorites' = <<>>
                THEN stocksData' = <<>> /\ batches' = batches
                ELSE /\ batches' = Append(batches, [tickers |-> gridFavorites',
                                                    status |-> "pending"])
                     /\ timers' = {interval'}
                     /\ interval' \notin timers]_vars

\* the favorites have changed from one list to another and from a list to
\* none: a second timer was set and is cleared, the first was cleared before
C28_Witness ==
    /\ mounted
    /\ timersCreated = 2
    /\ timers = {}
    /\ gridFavorites = <<>>
    /\ Len(batches) = 2

\* loadData call l ends in this step
LoadEnds(l) == loads[l].status = "pending" /\ loads'[l].status # "pending"

C30_CurrentTickerShown ==
    (/\ loads # <<>>
     /\ update = Null
     /\ \A l \in DOMAIN loads : loads[l].status = "ok") =>
        /\ accuracy = AccuracyData(tickerProp)
        /\ history = HistoryData(tickerProp)
====
